---- MODULE Spec2Model ----
(***************************************************************************)
(* Model of geoengine_datatypes: the columnar PointCollection              *)
(* (src/collections/point_collection.rs) with its FeatureCollection and    *)
(* Filterable implementations, and the TimeInterval value type             *)
(* (src/primitives/time_interval.rs).                                      *)
(*                                                                         *)
(* Rust vectors are sequences; a Rust index j is position j + 1 here, and  *)
(* the usize values stored in feature_indices keep their Rust (0-based)    *)
(* meaning.  A Coordinate is an (x, y) pair; the code only copies          *)
(* coordinates and hands them to predicates, so the coordinates of the     *)
(* doctests stand for all of them.                                         *)
(***************************************************************************)
EXTENDS Integers, Sequences, FiniteSets, TLC

\* ---------------------------------------------------------------- bounds

\* The coordinate buffer of a collection holds at most MaxCoords coordinates.
MaxCoords == 3

\* from_data is given offsets vectors of at most MaxOffsets entries.
MaxOffsets == 3

\* Interval bounds are drawn from -MaxTime .. MaxTime.
MaxTime == 2

\* The coordinates callers pass in: (0., 0.) and (1., 1.) of the doctests.
CoordValues == {[x |-> 0, y |-> 0], [x |-> 1, y |-> 1]}

RECURSIVE SeqsUpTo(_, _)
\* All sequences over S of length at most n.
SeqsUpTo(S, n) ==
    IF n = 0 THEN {<<>>}
    ELSE LET shorter == SeqsUpTo(S, n - 1)
         IN  shorter \cup {Append(s, x) : s \in shorter, x \in S}

\* Inputs of from_data: any offsets vector, any coordinate vector.
OffsetVectors == SeqsUpTo(0..MaxCoords, MaxOffsets)
CoordVectors == SeqsUpTo(CoordValues, MaxCoords)

\* The masks handed to a collection of n features: every mask of the
\* matching length n, and every mask one shorter or one longer.
Masks(n) == {mask \in SeqsUpTo(BOOLEAN, n + 1) : Len(mask) >= n - 1}

\* Predicates handed to the *_with_predicate filters: a test on the first
\* coordinate of the feature (as in the doctests), or on its length.
Predicates ==
    {[kind |-> "first_in", set |-> S] : S \in SUBSET CoordValues}
        \cup {[kind |-> "is_single", set |-> {}]}

NoPredicate == [kind |-> "none", set |-> {}]

predicate(p, slice) ==
    IF p.kind = "first_in" THEN slice[1] \in p.set ELSE Len(slice) = 1

\* ------------------------------------------------- PointCollection (pure)

\* &v[start..end] of a Rust vector.
Slice(v, start, end) == SubSeq(v, start + 1, end)

PointCollection_default == [feature_indices |-> <<0>>, coordinates |-> <<>>]

PointCollection_new == PointCollection_default

\* is_valid with `>` for `>=`: equal neighbouring offsets are let through.
is_valid_weak_monotonic(feature_indices, coordinates) ==
    IF Len(feature_indices) = 0 THEN FALSE
    ELSE IF feature_indices[Len(feature_indices)] # Len(coordinates) THEN FALSE
    ELSE IF \E w \in 1..(Len(feature_indices) - 1) :
                feature_indices[w] > feature_indices[w + 1]
         THEN FALSE
    ELSE TRUE

is_valid(feature_indices, coordinates) ==
    IF Len(feature_indices) = 0 THEN FALSE
    ELSE IF feature_indices[Len(feature_indices)] # Len(coordinates) THEN FALSE
    ELSE IF \E w \in 1..(Len(feature_indices) - 1) :
                feature_indices[w] >= feature_indices[w + 1]
         THEN FALSE
    ELSE TRUE

from_data(offsets, coords) ==
    IF is_valid(offsets, coords)
    THEN [result |-> "Ok", feature_indices |-> offsets, coordinates |-> coords]
    ELSE [result |-> "UnmatchedFeatureIndices",
          feature_indices |-> <<>>, coordinates |-> <<>>]

len(feature_indices) == Len(feature_indices) - 1

is_empty(feature_indices) == len(feature_indices) = 0

is_simple(feature_indices, coordinates) ==
    (Len(feature_indices) - 1) = Len(coordinates)

\* Vec::resize_with(new_len, || unreachable!()): only ever shrinks.
resize_with(v, new_len) == SubSeq(v, 1, new_len)

\* copy_within as a forward element-by-element copy that also misses the
\* last element of the range.
copy_within_short(v, start, end, dest) ==
    [k \in 1..Len(v) |->
        IF dest + 1 <= k /\ k <= dest + (end - start) - 1
        THEN v[start + (k - dest)]
        ELSE v[k]]

\* slice::copy_within(start..end, dest): a memmove inside one buffer.
copy_within(v, start, end, dest) ==
    [k \in 1..Len(v) |->
        IF dest + 1 <= k /\ k <= dest + (end - start)
        THEN v[start + (k - dest)]
        ELSE v[k]]

\* remove_last_feature that pops the offset and forgets the coordinates.
remove_last_feature_no_truncate(feature_indices, coordinates) ==
    IF Len(feature_indices) <= 1
    THEN [result |-> "DeleteFromEmpty",
          feature_indices |-> feature_indices, coordinates |-> coordinates]
    ELSE [result |-> "Ok",
          feature_indices |-> SubSeq(feature_indices, 1, Len(feature_indices) - 1),
          coordinates |-> coordinates]

remove_last_feature(feature_indices, coordinates) ==
    IF Len(feature_indices) <= 1
    THEN [result |-> "DeleteFromEmpty",
          feature_indices |-> feature_indices, coordinates |-> coordinates]
    ELSE LET popped == SubSeq(feature_indices, 1, Len(feature_indices) - 1)
         IN  [result |-> "Ok",
              feature_indices |-> popped,
              coordinates |-> resize_with(coordinates, popped[Len(popped)])]

add_point(feature_indices, coordinates, coordinate) ==
    LET pushed == Append(coordinates, coordinate)
    IN  [feature_indices |-> Append(feature_indices, Len(pushed)),
         coordinates |-> pushed]

\* add_multipoint without the is_empty test: an empty slice adds a feature.
add_multipoint_unguarded(feature_indices, coordinates, slice) ==
    LET extended == coordinates \o slice
    IN  [feature_indices |-> Append(feature_indices, Len(extended)),
         coordinates |-> extended]

add_multipoint(feature_indices, coordinates, slice) ==
    IF Len(slice) # 0
    THEN LET extended == coordinates \o slice
         IN  [feature_indices |-> Append(feature_indices, Len(extended)),
              coordinates |-> extended]
    ELSE [feature_indices |-> feature_indices, coordinates |-> coordinates]

Min(a, b) == IF a <= b THEN a ELSE b

RECURSIVE filter_loop(_, _, _, _, _, _)
\* The for loop of filter: window i (Rust index, 0-based) zipped with mask[i].
filter_loop(feature_indices, coordinates, mask, i, filtered_feature_indices, filtered_coordinates) ==
    IF i >= Min(Len(feature_indices) - 1, Len(mask))
    THEN [feature_indices |->
              Append(filtered_feature_indices, Len(filtered_coordinates)),
          coordinates |-> filtered_coordinates]
    ELSE LET start == feature_indices[i + 1]
             end == feature_indices[i + 2]
             flag == mask[i + 1]
         IN  IF flag
             THEN filter_loop(feature_indices, coordinates, mask, i + 1,
                      Append(filtered_feature_indices, Len(filtered_coordinates)),
                      filtered_coordinates \o Slice(coordinates, start, end))
             ELSE filter_loop(feature_indices, coordinates, mask, i + 1,
                      filtered_feature_indices, filtered_coordinates)

\* filter with `if !flag`: it keeps what the mask excludes.
filter_inverted(feature_indices, coordinates, mask) ==
    IF Len(mask) # Len(feature_indices) - 1
    THEN [result |-> "MaskDoesNotMatchFeatures",
          feature_indices |-> <<>>, coordinates |-> <<>>]
    ELSE LET filtered == filter_loop(feature_indices, coordinates,
                                     [i \in 1..Len(mask) |-> ~mask[i]], 0,
                                     <<>>, <<>>)
         IN  [result |-> "Ok",
              feature_indices |-> filtered.feature_indices,
              coordinates |-> filtered.coordinates]

filter(feature_indices, coordinates, mask) ==
    IF Len(mask) # Len(feature_indices) - 1
    THEN [result |-> "MaskDoesNotMatchFeatures",
          feature_indices |-> <<>>, coordinates |-> <<>>]
    ELSE LET filtered == filter_loop(feature_indices, coordinates, mask, 0,
                                     <<>>, <<>>)
         IN  [result |-> "Ok",
              feature_indices |-> filtered.feature_indices,
              coordinates |-> filtered.coordinates]

RECURSIVE filter_with_predicate_loop(_, _, _, _, _, _)
filter_with_predicate_loop(feature_indices, coordinates, p, i, filtered_feature_indices, filtered_coordinates) ==
    IF i >= Len(feature_indices) - 1
    THEN [feature_indices |->
              Append(filtered_feature_indices, Len(filtered_coordinates)),
          coordinates |-> filtered_coordinates]
    ELSE LET start == feature_indices[i + 1]
             end == feature_indices[i + 2]
             slice == Slice(coordinates, start, end)
         IN  IF predicate(p, slice)
             THEN filter_with_predicate_loop(feature_indices, coordinates, p, i + 1,
                      Append(filtered_feature_indices, Len(filtered_coordinates)),
                      filtered_coordinates \o slice)
             ELSE filter_with_predicate_loop(feature_indices, coordinates, p, i + 1,
                      filtered_feature_indices, filtered_coordinates)

filter_with_predicate(feature_indices, coordinates, p) ==
    filter_with_predicate_loop(feature_indices, coordinates, p, 0, <<>>, <<>>)

\* The body of `if flag { ... }` with `coordinate_start += end`: the write
\* cursor advances by the end of the source range, not by its length.
retain_feature_adds_end(s, start, end) ==
    [feature_indices |->
         [s.feature_indices EXCEPT ![s.feature_index + 1] = s.coordinate_start],
     coordinates |-> copy_within(s.coordinates, start, end, s.coordinate_start),
     feature_index |-> s.feature_index + 1,
     coordinate_start |-> s.coordinate_start + end]

\* The body of `if flag { ... }` in both in-place filters, on the loop state
\* s = (feature_indices, coordinates, feature_index, coordinate_start).
retain_feature(s, start, end) ==
    [feature_indices |->
         [s.feature_indices EXCEPT ![s.feature_index + 1] = s.coordinate_start],
     coordinates |-> copy_within(s.coordinates, start, end, s.coordinate_start),
     feature_index |-> s.feature_index + 1,
     coordinate_start |-> s.coordinate_start + (end - start)]

\* One iteration i of the loop of filter_inplace.
filter_inplace_step(s, mask, i) ==
    LET start == s.feature_indices[i + 1]
        end == s.feature_indices[i + 2]
    IN  IF mask[i + 1] THEN retain_feature(s, start, end) ELSE s

RECURSIVE filter_inplace_loop(_, _, _)
filter_inplace_loop(s, mask, i) ==
    IF i >= Len(mask) THEN s
    ELSE filter_inplace_loop(filter_inplace_step(s, mask, i), mask, i + 1)

\* The statements after the loop: the closing offset and the two truncations.
filter_inplace_finish(s) ==
    LET closed == [s.feature_indices EXCEPT
                       ![s.feature_index + 1] = s.coordinate_start]
    IN  [feature_indices |-> resize_with(closed, s.feature_index + 1),
         coordinates |-> resize_with(s.coordinates, s.coordinate_start)]

filter_inplace_start(feature_indices, coordinates) ==
    [feature_indices |-> feature_indices, coordinates |-> coordinates,
     feature_index |-> 0, coordinate_start |-> 0]

\* filter_inplace that finds the mismatch only after it has compacted as
\* many features as the mask and the collection both have.
filter_inplace_late_check(feature_indices, coordinates, mask) ==
    LET n == Min(Len(mask), Len(feature_indices) - 1)
        done == filter_inplace_finish(
                    filter_inplace_loop(
                        filter_inplace_start(feature_indices, coordinates),
                        SubSeq(mask, 1, n), 0))
    IN  [result |-> IF Len(mask) # Len(feature_indices) - 1
                    THEN "MaskDoesNotMatchFeatures" ELSE "Ok",
         feature_indices |-> done.feature_indices,
         coordinates |-> done.coordinates]

filter_inplace(feature_indices, coordinates, mask) ==
    IF Len(mask) # Len(feature_indices) - 1
    THEN [result |-> "MaskDoesNotMatchFeatures",
          feature_indices |-> feature_indices, coordinates |-> coordinates]
    ELSE LET done == filter_inplace_finish(
                         filter_inplace_loop(
                             filter_inplace_start(feature_indices, coordinates),
                             mask, 0))
         IN  [result |-> "Ok",
              feature_indices |-> done.feature_indices,
              coordinates |-> done.coordinates]

\* One iteration i of the loop of filter_inplace_with_predicate.
filter_inplace_with_predicate_step(s, p, i) ==
    LET start == s.feature_indices[i + 1]
        end == s.feature_indices[i + 2]
    IN  IF predicate(p, Slice(s.coordinates, start, end))
        THEN retain_feature(s, start, end)
        ELSE s

RECURSIVE filter_inplace_with_predicate_loop(_, _, _, _)
\* `for i in 0..self.len()`: the range n is evaluated once, before the loop.
filter_inplace_with_predicate_loop(s, p, i, n) ==
    IF i >= n THEN s
    ELSE filter_inplace_with_predicate_loop(
             filter_inplace_with_predicate_step(s, p, i), p, i + 1, n)

filter_inplace_with_predicate(feature_indices, coordinates, p) ==
    filter_inplace_finish(
        filter_inplace_with_predicate_loop(
            filter_inplace_start(feature_indices, coordinates),
            p, 0, len(feature_indices)))

\* ------------------------------------------------------ TimeInterval (pure)

Times == (0 - MaxTime)..MaxTime

TimeInterval_new(start, end) ==
    IF start <= end
    THEN [result |-> "Ok", start |-> start, end |-> end]
    ELSE [result |-> "EndBeforeStart", start |-> start, end |-> end]

\* unsafe TimeInterval::new_unchecked(start, end): no bound check.
TimeInterval_new_unchecked(start, end) == [start |-> start, end |-> end]

\* Every interval TimeInterval::new returns for bounds in Times.
TimeIntervals ==
    {[start |-> s, end |-> e] : s \in Times, e \in Times} \cap
    {[start |-> r.start, end |-> r.end] :
        r \in {q \in {TimeInterval_new(s, e) : s \in Times, e \in Times} :
                  q.result = "Ok"}}

\* contains with `<` and `>`: only strictly larger intervals contain.
contains_strict(this, other) ==
    this.start < other.start /\ this.end > other.end

contains(this, other) ==
    this.start <= other.start /\ this.end >= other.end

\* intersects with `<=` and `>=`: touching intervals count as intersecting.
intersects_closed(this, other) ==
    this.start <= other.end /\ this.end >= other.start

intersects(this, other) ==
    this.start < other.end /\ this.end > other.start

i64_min(a, b) == IF a <= b THEN a ELSE b

i64_max(a, b) == IF a >= b THEN a ELSE b

\* union that accepts only intersecting intervals, not contiguous ones.
union_intersecting_only(this, other) ==
    IF intersects(this, other)
    THEN [result |-> "Ok",
          start |-> i64_min(this.start, other.start),
          end |-> i64_max(this.end, other.end)]
    ELSE [result |-> "UnmatchedIntervals", start |-> 0, end |-> 0]

union(this, other) ==
    IF intersects(this, other) \/ this.start = other.end \/ this.end = other.start
    THEN [result |-> "Ok",
          start |-> i64_min(this.start, other.start),
          end |-> i64_max(this.end, other.end)]
    ELSE [result |-> "UnmatchedIntervals", start |-> 0, end |-> 0]

\* #[derive(PartialEq)]: structural equality of the two bounds.
eq(this, other) == this.start = other.start /\ this.end = other.end

\* partial_cmp that orders by the two starts: a total order on distinct
\* starts.
partial_cmp_by_start(this, other) ==
    IF eq(this, other) THEN "Equal"
    ELSE IF this.start < other.start THEN "Less"
    ELSE IF this.start > other.start THEN "Greater"
    ELSE "None"

\* partial_cmp with `<` and `>`: touching intervals become unordered.
partial_cmp_strict(this, other) ==
    IF eq(this, other) THEN "Equal"
    ELSE IF this.end < other.start THEN "Less"
    ELSE IF this.start > other.end THEN "Greater"
    ELSE "None"

partial_cmp(this, other) ==
    IF eq(this, other) THEN "Equal"
    ELSE IF this.end <= other.start THEN "Less"
    ELSE IF this.start >= other.end THEN "Greater"
    ELSE "None"

\* ------------------------------------------------------------------ state

VARIABLES
    constructed,   \* a PointCollection has been built (by new or from_data)
    self,          \* the collection: [feature_indices, coordinates]
    op,            \* the last PointCollection operation called
    arg,           \* its arguments
    pre,           \* the collection as it was when the operation was called
    result,        \* "Ok" or the error the operation returned
    out,           \* the collection returned by a copying filter, if any
    answer,        \* the boolean returned by the last query (is_simple)
    base,          \* the collection before the current run of removals
    run,           \* successful remove_last_feature calls since base
    loop,          \* the in-place filter in progress: its position and the
                   \* loop variables i, feature_index, coordinate_start
    i1, i2,        \* two time intervals
    ti_op,         \* the last TimeInterval operation called, on (i1, i2)
    ti_result      \* what it returned

pcvars == <<constructed, self, op, arg, pre, result, out, answer, base, run, loop>>

tivars == <<i1, i2, ti_op, ti_result>>

vars == <<constructed, self, op, arg, pre, result, out, answer, base, run, loop,
          i1, i2, ti_op, ti_result>>

NoCollection == [feature_indices |-> <<>>, coordinates |-> <<>>]

NoOut == [some |-> FALSE, feature_indices |-> <<>>, coordinates |-> <<>>]

NoArg == [mask |-> <<>>, predicate |-> NoPredicate,
          offsets |-> <<>>, coordinates |-> <<>>]

\* No in-place filter is running.
NoLoop == [pc |-> "idle", i |-> 0, n |-> 0, feature_index |-> 0, coordinate_start |-> 0]

NoTiResult == [result |-> "none", start |-> 0, end |-> 0,
               flag |-> FALSE, ordering |-> "none"]

InitPointCollection ==
    /\ constructed = FALSE
    /\ self = NoCollection
    /\ op = "none"
    /\ arg = NoArg
    /\ pre = NoCollection
    /\ result = "none"
    /\ out = NoOut
    /\ answer = FALSE
    /\ base = NoCollection
    /\ run = 0
    /\ loop = NoLoop

InitTimeIntervals ==
    /\ ti_op = "none"
    /\ ti_result = NoTiResult

Init ==
    /\ InitPointCollection
    /\ InitTimeIntervals
    /\ i1 = [start |-> 0, end |-> 0]
    /\ i2 = [start |-> 0, end |-> 0]

\* ---------------------------------------------- PointCollection (actions)

\* PointCollection::new(); a constructor is the first call of a run.
New ==
    /\ ~constructed
    /\ op = "none"
    /\ constructed' = TRUE
    /\ self' = PointCollection_new
    /\ op' = "new"
    /\ arg' = NoArg
    /\ pre' = self
    /\ result' = "Ok"
    /\ out' = NoOut
    /\ base' = self'
    /\ run' = 0
    /\ UNCHANGED <<answer, loop, i1, i2, ti_op, ti_result>>

\* PointCollection::from_data(offsets, coords), for any two vectors.
FromData ==
    /\ ~constructed
    /\ op = "none"
    /\ \E offsets \in OffsetVectors, coords \in CoordVectors :
           LET r == from_data(offsets, coords)
           IN  /\ result' = r.result
               /\ constructed' = (r.result = "Ok")
               /\ self' = IF r.result = "Ok"
                          THEN [feature_indices |-> r.feature_indices,
                                coordinates |-> r.coordinates]
                          ELSE self
               /\ arg' = [NoArg EXCEPT !.offsets = offsets,
                                       !.coordinates = coords]
    /\ op' = "from_data"
    /\ pre' = self
    /\ out' = NoOut
    /\ base' = self'
    /\ run' = 0
    /\ UNCHANGED <<answer, loop, i1, i2, ti_op, ti_result>>

\* self.add_point(coordinate)
AddPoint(coordinate) ==
    /\ constructed
    /\ Len(self.coordinates) + 1 <= MaxCoords
    /\ self' = add_point(self.feature_indices, self.coordinates, coordinate)
    /\ op' = "add_point"
    /\ arg' = [NoArg EXCEPT !.coordinates = <<coordinate>>]
    /\ pre' = self
    /\ result' = "Ok"
    /\ out' = NoOut
    /\ base' = self'
    /\ run' = 0
    /\ UNCHANGED <<constructed, answer, loop, i1, i2, ti_op, ti_result>>

\* self.add_multipoint(slice)
AddMultipoint(slice) ==
    /\ constructed
    /\ Len(self.coordinates) + Len(slice) <= MaxCoords
    /\ self' = add_multipoint(self.feature_indices, self.coordinates, slice)
    /\ op' = "add_multipoint"
    /\ arg' = [NoArg EXCEPT !.coordinates = slice]
    /\ pre' = self
    /\ result' = "Ok"
    /\ out' = NoOut
    /\ base' = self'
    /\ run' = 0
    /\ UNCHANGED <<constructed, answer, loop, i1, i2, ti_op, ti_result>>

\* self.remove_last_feature()
RemoveLastFeature ==
    /\ constructed
    /\ LET r == remove_last_feature(self.feature_indices, self.coordinates)
       IN  /\ result' = r.result
           /\ self' = [feature_indices |-> r.feature_indices,
                       coordinates |-> r.coordinates]
           /\ run' = IF r.result = "Ok" THEN run + 1 ELSE run
    /\ op' = "remove_last_feature"
    /\ arg' = NoArg
    /\ pre' = self
    /\ out' = NoOut
    /\ UNCHANGED <<constructed, answer, base, loop, i1, i2, ti_op, ti_result>>

\* self.filter(mask)
Filter ==
    /\ constructed
    /\ \E mask \in Masks(len(self.feature_indices)) :
           LET r == filter(self.feature_indices, self.coordinates, mask)
           IN  /\ result' = r.result
               /\ out' = [some |-> r.result = "Ok",
                          feature_indices |-> r.feature_indices,
                          coordinates |-> r.coordinates]
               /\ arg' = [NoArg EXCEPT !.mask = mask]
    /\ op' = "filter"
    /\ pre' = self
    /\ base' = self
    /\ run' = 0
    /\ UNCHANGED <<constructed, self, answer, loop, i1, i2, ti_op, ti_result>>

\* self.filter_with_predicate(p)
FilterWithPredicate(p) ==
    /\ constructed
    /\ LET r == filter_with_predicate(self.feature_indices, self.coordinates, p)
       IN  out' = [some |-> TRUE,
                   feature_indices |-> r.feature_indices,
                   coordinates |-> r.coordinates]
    /\ op' = "filter_with_predicate"
    /\ arg' = [NoArg EXCEPT !.predicate = p]
    /\ pre' = self
    /\ result' = "Ok"
    /\ base' = self
    /\ run' = 0
    /\ UNCHANGED <<constructed, self, answer, loop, i1, i2, ti_op, ti_result>>

\* self.filter_inplace(mask)
FilterInplace ==
    /\ constructed
    /\ \E mask \in Masks(len(self.feature_indices)) :
           LET r == filter_inplace(self.feature_indices, self.coordinates, mask)
           IN  /\ result' = r.result
               /\ self' = [feature_indices |-> r.feature_indices,
                           coordinates |-> r.coordinates]
               /\ arg' = [NoArg EXCEPT !.mask = mask]
    /\ op' = "filter_inplace"
    /\ pre' = self
    /\ out' = NoOut
    /\ base' = self'
    /\ run' = 0
    /\ UNCHANGED <<constructed, answer, loop, i1, i2, ti_op, ti_result>>

\* self.filter_inplace_with_predicate(p)
FilterInplaceWithPredicate(p) ==
    /\ constructed
    /\ LET r == filter_inplace_with_predicate(self.feature_indices,
                                              self.coordinates, p)
       IN  self' = [feature_indices |-> r.feature_indices,
                    coordinates |-> r.coordinates]
    /\ op' = "filter_inplace_with_predicate"
    /\ arg' = [NoArg EXCEPT !.predicate = p]
    /\ pre' = self
    /\ result' = "Ok"
    /\ out' = NoOut
    /\ base' = self'
    /\ run' = 0
    /\ UNCHANGED <<constructed, answer, loop, i1, i2, ti_op, ti_result>>

\* self.is_simple()
IsSimple ==
    /\ constructed
    /\ answer' = is_simple(self.feature_indices, self.coordinates)
    /\ op' = "is_simple"
    /\ arg' = NoArg
    /\ pre' = self
    /\ result' = "Ok"
    /\ out' = NoOut
    /\ UNCHANGED <<constructed, self, base, run, loop, i1, i2, ti_op, ti_result>>

Next ==
    \/ New
    \/ FromData
    \/ \E coordinate \in CoordValues : AddPoint(coordinate)
    \/ \E slice \in CoordVectors : AddMultipoint(slice)
    \/ RemoveLastFeature
    \/ IsSimple
    \/ Filter
    \/ \E p \in Predicates : FilterWithPredicate(p)
    \/ FilterInplace
    \/ \E p \in Predicates : FilterInplaceWithPredicate(p)

Spec == Init /\ [][Next]_vars

\* ------------------------------------------------- TimeInterval (actions)

InitTI ==
    /\ InitPointCollection
    /\ InitTimeIntervals
    /\ i1 \in TimeIntervals
    /\ i2 \in TimeIntervals

\* TimeInterval::new(start, end); a new interval takes the place of i1, and
\* the former i1 that of i2.
TimeIntervalNew(start, end) ==
    /\ LET r == TimeInterval_new(start, end)
       IN  /\ ti_result' = [NoTiResult EXCEPT !.result = r.result,
                                              !.start = r.start, !.end = r.end]
           /\ i1' = IF r.result = "Ok"
                    THEN [start |-> r.start, end |-> r.end]
                    ELSE i1
           /\ i2' = IF r.result = "Ok" THEN i1 ELSE i2
    /\ ti_op' = "new"
    /\ UNCHANGED pcvars

\* i1.contains(&i2)
Contains ==
    /\ ti_op' = "contains"
    /\ ti_result' = [NoTiResult EXCEPT !.result = "Ok",
                                       !.flag = contains(i1, i2)]
    /\ UNCHANGED <<i1, i2>>
    /\ UNCHANGED pcvars

\* i1.intersects(&i2)
Intersects ==
    /\ ti_op' = "intersects"
    /\ ti_result' = [NoTiResult EXCEPT !.result = "Ok",
                                       !.flag = intersects(i1, i2)]
    /\ UNCHANGED <<i1, i2>>
    /\ UNCHANGED pcvars

\* i1.union(&i2)
Union ==
    /\ LET r == union(i1, i2)
       IN  ti_result' = [NoTiResult EXCEPT !.result = r.result,
                                           !.start = r.start, !.end = r.end]
    /\ ti_op' = "union"
    /\ UNCHANGED <<i1, i2>>
    /\ UNCHANGED pcvars

\* i1.partial_cmp(&i2)
PartialCmp ==
    /\ ti_op' = "partial_cmp"
    /\ ti_result' = [NoTiResult EXCEPT !.result = "Ok",
                                       !.ordering = partial_cmp(i1, i2)]
    /\ UNCHANGED <<i1, i2>>
    /\ UNCHANGED pcvars

NextTI ==
    \/ \E start \in Times, end \in Times : TimeIntervalNew(start, end)
    \/ Contains
    \/ Intersects
    \/ Union
    \/ PartialCmp

SpecTI == InitTI /\ [][NextTI]_vars

\* TimeInterval::new_unchecked(start, end); the new interval takes the place
\* of i1, and the former i1 that of i2.
TimeIntervalNewUnchecked(start, end) ==
    /\ i1' = TimeInterval_new_unchecked(start, end)
    /\ i2' = i1
    /\ ti_op' = "new_unchecked"
    /\ ti_result' = [NoTiResult EXCEPT !.result = "Ok",
                                       !.start = start, !.end = end]
    /\ UNCHANGED pcvars

NextTIUnchecked ==
    \/ NextTI
    \/ \E start \in Times, end \in Times : TimeIntervalNewUnchecked(start, end)

\* The intervals of any caller: those made by new and by new_unchecked.
SpecTIUnchecked == InitTI /\ [][NextTIUnchecked]_vars

\* ------------------------------------- the in-place filters, step by step

\* The loop state of the in-place filter in progress: the receiver's two
\* vectors as they are now, and the two write cursors.
LoopState ==
    [feature_indices |-> self.feature_indices,
     coordinates |-> self.coordinates,
     feature_index |-> loop.feature_index,
     coordinate_start |-> loop.coordinate_start]

\* self.filter_inplace(mask) up to the loop: the length test and the two
\* `let mut`.
FilterInplaceEnter ==
    /\ constructed
    /\ loop.pc = "idle"
    /\ \E mask \in Masks(len(self.feature_indices)) :
           /\ arg' = [NoArg EXCEPT !.mask = mask]
           /\ IF Len(mask) # Len(self.feature_indices) - 1
              THEN /\ result' = "MaskDoesNotMatchFeatures"
                   /\ loop' = NoLoop
              ELSE LET s == filter_inplace_start(self.feature_indices,
                                                 self.coordinates)
                   IN  /\ result' = "running"
                       /\ loop' = [pc |-> "filter_inplace",
                                   i |-> 0, n |-> Len(mask),
                                   feature_index |-> s.feature_index,
                                   coordinate_start |-> s.coordinate_start]
    /\ op' = "filter_inplace"
    /\ pre' = self
    /\ out' = NoOut
    /\ base' = self
    /\ run' = 0
    /\ UNCHANGED <<constructed, self, answer, i1, i2, ti_op, ti_result>>

\* One iteration of the loop of filter_inplace.
FilterInplaceIterate ==
    /\ loop.pc = "filter_inplace"
    /\ loop.i < loop.n
    /\ LET s == filter_inplace_step(LoopState, arg.mask, loop.i)
       IN  /\ self' = [feature_indices |-> s.feature_indices,
                       coordinates |-> s.coordinates]
           /\ loop' = [loop EXCEPT !.i = loop.i + 1,
                                   !.feature_index = s.feature_index,
                                   !.coordinate_start = s.coordinate_start]
    /\ UNCHANGED <<constructed, op, arg, pre, result, out, answer, base, run,
                   i1, i2, ti_op, ti_result>>

\* The end of filter_inplace: the closing offset, the truncations, Ok(()).
FilterInplaceExit ==
    /\ loop.pc = "filter_inplace"
    /\ loop.i >= loop.n
    /\ LET done == filter_inplace_finish(LoopState)
       IN  self' = [feature_indices |-> done.feature_indices,
                    coordinates |-> done.coordinates]
    /\ loop' = NoLoop
    /\ result' = "Ok"
    /\ base' = self'
    /\ UNCHANGED <<constructed, op, arg, pre, out, answer, run,
                   i1, i2, ti_op, ti_result>>

\* self.filter_inplace_with_predicate(p) up to the loop; the range
\* 0..self.len() is fixed here.
FilterInplaceWithPredicateEnter(p) ==
    /\ constructed
    /\ loop.pc = "idle"
    /\ LET s == filter_inplace_start(self.feature_indices, self.coordinates)
       IN  loop' = [pc |-> "filter_inplace_with_predicate",
                    i |-> 0, n |-> len(self.feature_indices),
                    feature_index |-> s.feature_index,
                    coordinate_start |-> s.coordinate_start]
    /\ arg' = [NoArg EXCEPT !.predicate = p]
    /\ op' = "filter_inplace_with_predicate"
    /\ result' = "running"
    /\ pre' = self
    /\ out' = NoOut
    /\ base' = self
    /\ run' = 0
    /\ UNCHANGED <<constructed, self, answer, i1, i2, ti_op, ti_result>>

\* One iteration of the loop of filter_inplace_with_predicate.
FilterInplaceWithPredicateIterate ==
    /\ loop.pc = "filter_inplace_with_predicate"
    /\ loop.i < loop.n
    /\ LET s == filter_inplace_with_predicate_step(LoopState, arg.predicate,
                                                   loop.i)
       IN  /\ self' = [feature_indices |-> s.feature_indices,
                       coordinates |-> s.coordinates]
           /\ loop' = [loop EXCEPT !.i = loop.i + 1,
                                   !.feature_index = s.feature_index,
                                   !.coordinate_start = s.coordinate_start]
    /\ UNCHANGED <<constructed, op, arg, pre, result, out, answer, base, run,
                   i1, i2, ti_op, ti_result>>

\* The end of filter_inplace_with_predicate.
FilterInplaceWithPredicateExit ==
    /\ loop.pc = "filter_inplace_with_predicate"
    /\ loop.i >= loop.n
    /\ LET done == filter_inplace_finish(LoopState)
       IN  self' = [feature_indices |-> done.feature_indices,
                    coordinates |-> done.coordinates]
    /\ loop' = NoLoop
    /\ result' = "Ok"
    /\ base' = self'
    /\ UNCHANGED <<constructed, op, arg, pre, out, answer, run,
                   i1, i2, ti_op, ti_result>>

\* Collections are built by the constructors and the two add methods, and
\* filtered in place one loop iteration at a time; no other method runs
\* while a filter holds the exclusive borrow of the collection.
NextInplace ==
    \/ New
    \/ FromData
    \/ loop.pc = "idle" /\ \E coordinate \in CoordValues : AddPoint(coordinate)
    \/ loop.pc = "idle" /\ \E slice \in CoordVectors : AddMultipoint(slice)
    \/ FilterInplaceEnter
    \/ FilterInplaceIterate
    \/ FilterInplaceExit
    \/ \E p \in Predicates : FilterInplaceWithPredicateEnter(p)
    \/ FilterInplaceWithPredicateIterate
    \/ FilterInplaceWithPredicateExit

SpecInplace == Init /\ [][NextInplace]_vars

\* ----------------------------------------------------------------- claims

\* The validity invariant as the specification words it.
WellFormed(offsets, coords) ==
    /\ Len(offsets) > 0
    /\ \A k \in 1..(Len(offsets) - 1) : offsets[k] < offsets[k + 1]
    /\ offsets[Len(offsets)] = Len(coords)

NumFeatures(c) == Len(c.feature_indices) - 1

\* The coordinate run of feature k (k = 1 is the first feature) of c.
Feature(c, k) ==
    SubSeq(c.coordinates, c.feature_indices[k] + 1, c.feature_indices[k + 1])

RECURSIVE KeptUpTo(_, _)
\* The positions k <= n with mask[k] true, in increasing order.
KeptUpTo(mask, n) ==
    IF n = 0 THEN <<>>
    ELSE IF mask[n] THEN Append(KeptUpTo(mask, n - 1), n)
    ELSE KeptUpTo(mask, n - 1)

Kept(mask) == KeptUpTo(mask, Len(mask))

IsMixed(mask) ==
    /\ \E k \in 1..Len(mask) : mask[k]
    /\ \E k \in 1..Len(mask) : ~mask[k]

\* C1: once constructed by new or from_data, the collection satisfies the
\* validity invariant after every sequence of add_point, add_multipoint,
\* remove_last_feature and the four filters, and so does every collection a
\* copying filter returns.
C1_ValidityPreserved ==
    /\ constructed => WellFormed(self.feature_indices, self.coordinates)
    /\ out.some => WellFormed(out.feature_indices, out.coordinates)

\* C1 witness: an empty multipoint was added to a collection that already
\* holds features.
C1_Witness ==
    /\ op = "add_multipoint"
    /\ arg.coordinates = <<>>
    /\ NumFeatures(self) >= 2

\* C2: filter with a mask of the matching length returns exactly the runs
\* of the features the mask selects, in their original order and nothing
\* else; len() of the result is the number of true entries.
C2_FilterSelects ==
    (op = "filter" /\ Len(arg.mask) = NumFeatures(pre)) =>
        LET kept == Kept(arg.mask)
        IN  /\ result = "Ok"
            /\ out.some
            /\ len(out.feature_indices) =
                   Cardinality({k \in 1..Len(arg.mask) : arg.mask[k]})
            /\ len(out.feature_indices) = Len(kept)
            /\ \A k \in 1..Len(kept) : Feature(out, k) = Feature(pre, kept[k])
            /\ out.feature_indices[1] = 0
            /\ out.feature_indices[Len(out.feature_indices)] =
                   Len(out.coordinates)

\* C2 witness: the doctest's mask [true, false, true] on three features.
C2_Witness ==
    /\ op = "filter"
    /\ result = "Ok"
    /\ arg.mask = <<TRUE, FALSE, TRUE>>
    /\ len(out.feature_indices) = 2

\* C3: after filter_inplace with a mask of the matching length the receiver
\* has the offsets and the coordinates that filter returns for the
\* unmodified receiver and the same mask.
C3_InplaceEqualsCopy ==
    (op = "filter_inplace" /\ Len(arg.mask) = NumFeatures(pre)) =>
        LET copy == filter(pre.feature_indices, pre.coordinates, arg.mask)
        IN  /\ result = "Ok"
            /\ copy.result = "Ok"
            /\ self.feature_indices = copy.feature_indices
            /\ self.coordinates = copy.coordinates

\* C3 witness: an in-place filter that dropped the first feature and moved a
\* multipoint down.
C3_Witness ==
    /\ op = "filter_inplace"
    /\ result = "Ok"
    /\ arg.mask = <<FALSE, TRUE>>
    /\ Len(self.coordinates) = 2

\* C4: with a mask whose length differs from len(), filter and
\* filter_inplace fail with MaskDoesNotMatchFeatures, filter returns no
\* collection, and the receiver is what it was before the call.
C4_MaskMismatchFails ==
    (op \in {"filter", "filter_inplace"} /\ Len(arg.mask) # NumFeatures(pre)) =>
        /\ result = "MaskDoesNotMatchFeatures"
        /\ ~out.some
        /\ self = pre

\* C4 witness: filter_inplace was refused a mask that is one short and has
\* both a true and a false entry.
C4_Witness ==
    /\ op = "filter_inplace"
    /\ result = "MaskDoesNotMatchFeatures"
    /\ NumFeatures(pre) = 3
    /\ Len(arg.mask) = 2
    /\ IsMixed(arg.mask)

\* C5: on a collection of n features, the k-th consecutive
\* remove_last_feature succeeds for k <= n and leaves the first n - k
\* features (the offsets lose their last k entries, the coordinates are cut
\* at the new last offset); after n calls the collection is empty, and a
\* further call fails with DeleteFromEmpty and changes nothing.
C5_RemoveLastFeature ==
    op = "remove_last_feature" =>
        LET n == NumFeatures(base)
        IN  /\ NumFeatures(pre) >= 1 => result = "Ok"
            /\ result = "Ok" =>
                   /\ run \in 1..n
                   /\ self.feature_indices =
                          SubSeq(base.feature_indices, 1, n - run + 1)
                   /\ self.coordinates =
                          SubSeq(base.coordinates, 1,
                                 base.feature_indices[n - run + 1])
                   /\ \A k \in 1..(n - run) : Feature(self, k) = Feature(base, k)
            /\ run = n => is_empty(self.feature_indices)
            /\ result # "Ok" =>
                   /\ result = "DeleteFromEmpty"
                   /\ run = n
                   /\ self = pre

\* C5 witness: three features were removed one after the other and the
\* fourth call failed.
C5_Witness ==
    /\ op = "remove_last_feature"
    /\ result = "DeleteFromEmpty"
    /\ NumFeatures(base) = 3
    /\ run = 3

\* C6: on a valid collection is_simple() is true iff every feature's
\* coordinate range has length exactly 1.
C6_IsSimpleIffAllSingle ==
    op = "is_simple" =>
        (answer <=>
            \A k \in 1..NumFeatures(self) :
                self.feature_indices[k + 1] - self.feature_indices[k] = 1)

\* C7: filter with the all-true mask of length len() returns a collection
\* with as many offsets, the same run length per feature and the same
\* coordinate sequence as the receiver.
C7_AllTrueFilterIsIdentity ==
    (/\ op = "filter"
     /\ Len(arg.mask) = NumFeatures(pre)
     /\ \A k \in 1..Len(arg.mask) : arg.mask[k]) =>
        /\ result = "Ok"
        /\ Len(out.feature_indices) = Len(pre.feature_indices)
        /\ \A k \in 1..NumFeatures(pre) :
               out.feature_indices[k + 1] - out.feature_indices[k] =
                   pre.feature_indices[k + 1] - pre.feature_indices[k]
        /\ out.coordinates = pre.coordinates

\* C8: from_data returns Ok, with the collection made of its two arguments,
\* iff offsets is non-empty, strictly increasing and ends at
\* coordinates.len(); otherwise it returns UnmatchedFeatureIndices and no
\* collection.
C8_FromDataChecks ==
    op = "from_data" =>
        /\ result = "Ok" <=> WellFormed(arg.offsets, arg.coordinates)
        /\ result = "Ok" =>
               /\ constructed
               /\ self.feature_indices = arg.offsets
               /\ self.coordinates = arg.coordinates
        /\ result # "Ok" =>
               /\ result = "UnmatchedFeatureIndices"
               /\ ~constructed
               /\ self = NoCollection

\* C8 witness: from_data refused offsets that end at coordinates.len() and
\* never decrease but repeat an entry.
C8_Witness ==
    /\ op = "from_data"
    /\ result = "UnmatchedFeatureIndices"
    /\ Len(arg.offsets) = 3
    /\ arg.offsets[Len(arg.offsets)] = Len(arg.coordinates)
    /\ \A k \in 1..(Len(arg.offsets) - 1) : arg.offsets[k] <= arg.offsets[k + 1]

Touching(a, b) == a.start = b.end \/ a.end = b.start

\* C9: for intervals made by new, union returns Ok with the span
\* [min of the starts, max of the ends) iff the two intersect or touch, and
\* UnmatchedIntervals otherwise.
C9_UnionIffIntersectingOrTouching ==
    ti_op = "union" =>
        /\ ti_result.result = "Ok" <=> (intersects(i1, i2) \/ Touching(i1, i2))
        /\ ti_result.result = "Ok" =>
               /\ ti_result.start <= i1.start /\ ti_result.start <= i2.start
               /\ ti_result.start \in {i1.start, i2.start}
               /\ ti_result.end >= i1.end /\ ti_result.end >= i2.end
               /\ ti_result.end \in {i1.end, i2.end}
        /\ ti_result.result # "Ok" => ti_result.result = "UnmatchedIntervals"

\* C9 witness: the union of two non-degenerate intervals that touch without
\* intersecting was taken.
C9_Witness ==
    /\ ti_op = "union"
    /\ ti_result.result = "Ok"
    /\ i1.start < i1.end
    /\ i1.end = i2.start
    /\ i2.start < i2.end
    /\ ~intersects(i1, i2)

\* C10 as claimed: partial_cmp is Less iff a.end <= b.start and Greater iff
\* a.start >= b.end, for all intervals made by new, degenerate ones
\* included.
C10_AsClaimed ==
    ti_op = "partial_cmp" =>
        /\ ti_result.ordering = "Less" <=> i1.end <= i2.start
        /\ ti_result.ordering = "Greater" <=> i1.start >= i2.end

\* C10 amended: for a # b, partial_cmp is Less iff a.end <= b.start and
\* Greater iff a.start >= b.end; for a = b it is Equal, also when both are
\* the same degenerate interval (for which a.end <= b.start holds too).
C10_OrderOfDistinctIntervals ==
    ti_op = "partial_cmp" =>
        /\ i1 # i2 =>
               /\ ti_result.ordering = "Less" <=> i1.end <= i2.start
               /\ ti_result.ordering = "Greater" <=> i1.start >= i2.end
        /\ i1 = i2 => ti_result.ordering = "Equal"

\* C10 witness: a degenerate interval was compared with a different interval
\* that starts where it ends.
C10_Witness ==
    /\ ti_op = "partial_cmp"
    /\ i1.start = i1.end
    /\ i1 # i2
    /\ i1.end = i2.start
    /\ ti_result.ordering = "Less"

\* b is a zero-length interval that sits on one of the two bounds of a.
ZeroLengthOnBoundOf(b, a) ==
    /\ b.start = b.end
    /\ b.start = a.start \/ b.end = a.end

\* C11 as claimed: when one of two different intervals made by new contains
\* the other, partial_cmp of the pair is None in both directions.
C11_AsClaimed ==
    (/\ ti_op = "partial_cmp"
     /\ i1 # i2
     /\ contains(i1, i2) \/ contains(i2, i1)) =>
        ti_result.ordering = "None"

\* C11 amended: when one of two different intervals made by new contains the
\* other, partial_cmp of the pair is None in both directions unless the
\* contained interval is a zero-length interval on a bound of the container;
\* then the pair is ordered (the one at the start is Less than the container,
\* the one at the end is Greater).
C11_ContainmentIsUnordered ==
    (/\ ti_op = "partial_cmp"
     /\ i1 # i2) =>
        /\ contains(i1, i2) =>
               /\ ~ZeroLengthOnBoundOf(i2, i1) => ti_result.ordering = "None"
               /\ (i2.start = i2.end /\ i2.end = i1.start) =>
                      ti_result.ordering = "Greater"
               /\ (i2.start = i2.end /\ i2.start = i1.end) =>
                      ti_result.ordering = "Less"
        /\ contains(i2, i1) =>
               /\ ~ZeroLengthOnBoundOf(i1, i2) => ti_result.ordering = "None"
               /\ (i1.start = i1.end /\ i1.end = i2.start) =>
                      ti_result.ordering = "Less"
               /\ (i1.start = i1.end /\ i1.start = i2.end) =>
                      ti_result.ordering = "Greater"

\* C11 witness: an interval was compared with a longer one that starts where
\* it starts, as [0, 1) with [0, 2) in the doctest.
C11_Witness ==
    /\ ti_op = "partial_cmp"
    /\ i1.start = i2.start
    /\ i1.start < i1.end
    /\ i1.end < i2.end
    /\ contains(i2, i1)
    /\ ti_result.ordering = "None"

\* C12: for two different intervals made by new, partial_cmp is None exactly
\* when they intersect; when they do not, the pair is ordered Less or
\* Greater (touching intervals are Less, overlapping ones unordered).
C12_UnorderedIffIntersecting ==
    (/\ ti_op = "partial_cmp"
     /\ i1 # i2) =>
        /\ ti_result.ordering = "None" <=> intersects(i1, i2)
        /\ ~intersects(i1, i2) => ti_result.ordering \in {"Less", "Greater"}
        /\ (i1.end = i2.start) => ti_result.ordering = "Less"
        /\ (i1.start < i2.start /\ i2.start < i1.end /\ i1.end < i2.end) =>
               ti_result.ordering = "None"

\* C12 witness: two intervals that overlap in part, as [0, 2) and [1, 3),
\* were compared.
C12_Witness ==
    /\ ti_op = "partial_cmp"
    /\ i1.start < i2.start
    /\ i2.start < i1.end
    /\ i1.end < i2.end
    /\ ti_result.ordering = "None"

\* C13: for all intervals, made by new or by new_unchecked, intersects gives
\* the same answer with the two intervals exchanged, an interval contains
\* itself, and two intervals that contain each other are equal.
C13_IntersectsSymmetricContainsOrder ==
    /\ ti_op = "intersects" => (ti_result.flag <=> intersects(i2, i1))
    /\ (ti_op = "contains" /\ i1 = i2) => ti_result.flag
    /\ (ti_op = "contains" /\ ti_result.flag /\ contains(i2, i1)) => i1 = i2

\* C13 witness: an interval made by new_unchecked whose end is before its
\* start was asked whether it contains itself.
C13_Witness ==
    /\ ti_op = "contains"
    /\ i1 = i2
    /\ i1.start > i1.end
    /\ ti_result.flag

InLoop == loop.pc \in {"filter_inplace", "filter_inplace_with_predicate"}

\* C14: while filter_inplace or filter_inplace_with_predicate runs on a valid
\* collection, before every iteration i the write cursors are not past the
\* read position (feature_index <= i, coordinate_start <= the start of
\* feature i), the offsets from entry i on and the coordinates from the start
\* of feature i on are still those of the receiver before the call, and the
\* closing write at feature_index falls inside the offsets vector.
C14_WriteCursorsBehindRead ==
    InLoop =>
        /\ loop.feature_index <= loop.i
        /\ loop.feature_index + 1 <= Len(self.feature_indices)
        /\ Len(self.feature_indices) = Len(pre.feature_indices)
        /\ Len(self.coordinates) = Len(pre.coordinates)
        /\ \A j \in (loop.i + 1)..Len(pre.feature_indices) :
               self.feature_indices[j] = pre.feature_indices[j]
        /\ loop.i < loop.n =>
               /\ loop.coordinate_start <= self.feature_indices[loop.i + 1]
               /\ \A k \in (pre.feature_indices[loop.i + 1] + 1)
                               ..Len(pre.coordinates) :
                      self.coordinates[k] = pre.coordinates[k]

\* C14 witness: the loop is about to visit its third feature after it kept
\* one of the first two and dropped the other, so both write cursors are
\* strictly behind the read position.
C14_Witness ==
    /\ InLoop
    /\ loop.i = 2
    /\ loop.i < loop.n
    /\ loop.feature_index = 1
    /\ loop.coordinate_start < self.feature_indices[loop.i + 1]

====
